---- MODULE Spec2Model ----
(***************************************************************************)
(* The autoflow commit / pr workflow (src/autoflow/_cli.py) together with  *)
(* the git adapter (src/autoflow/_git.py) and the generation client        *)
(* (src/autoflow/_litellm.py).                                             *)
(*                                                                         *)
(* Text is a sequence of one-character strings, so that strip(), lower()   *)
(* and replace() are computed rather than assumed.  A diff is abstracted   *)
(* to the two things the code looks at: its length and whether it is blank *)
(* after strip().  Optional values are None == <<>> or Some(v) == <<v>>.   *)
(***************************************************************************)
EXTENDS Integers, Sequences, FiniteSets, TLC

None == <<>>
Some(v) == <<v>>
Val(o) == o[1]

\* Python truthiness of an Optional[str]: None and "" are both falsy.
Truthy(o) == o # None /\ Val(o) # <<>>

----------------------------------------------------------------------------
\* Text helpers (str.strip, str.lower, str.replace, `in`).

Whitespace == {" ", "\t", "\n", "\r", "\f"}

RECURSIVE LStrip(_)
LStrip(s) == IF s = <<>> THEN s
             ELSE IF Head(s) \in Whitespace THEN LStrip(Tail(s)) ELSE s

RECURSIVE RStrip(_)
RStrip(s) == IF s = <<>> THEN s
             ELSE IF s[Len(s)] \in Whitespace THEN RStrip(SubSeq(s, 1, Len(s) - 1)) ELSE s

Strip(s) == RStrip(LStrip(s))

UpperLetters == <<"A", "B", "C", "D", "E", "F", "G", "H", "I", "J", "K", "L", "M",
                  "N", "O", "P", "Q", "R", "S", "T", "U", "V", "W", "X", "Y", "Z">>
LowerLetters == <<"a", "b", "c", "d", "e", "f", "g", "h", "i", "j", "k", "l", "m",
                  "n", "o", "p", "q", "r", "s", "t", "u", "v", "w", "x", "y", "z">>

LowerChar(c) == IF \E i \in DOMAIN UpperLetters : UpperLetters[i] = c
                THEN LowerLetters[CHOOSE i \in DOMAIN UpperLetters : UpperLetters[i] = c]
                ELSE c

Lower(s) == [i \in DOMAIN s |-> LowerChar(s[i])]

StartsWith(s, p) == Len(s) >= Len(p) /\ SubSeq(s, 1, Len(p)) = p

RECURSIVE Replace(_, _, _)
Replace(s, old, new) ==
    IF Len(s) < Len(old) \/ s = <<>> THEN s
    ELSE IF StartsWith(s, old)
         THEN new \o Replace(SubSeq(s, Len(old) + 1, Len(s)), old, new)
         ELSE <<Head(s)>> \o Replace(Tail(s), old, new)

\* The backquote character (SANY does not lex it inside a string literal).
BACKTICK == "BACKTICK"

Contains(s, p) == \E i \in 0..(Len(s) - Len(p)) : SubSeq(s, i + 1, i + Len(p)) = p

----------------------------------------------------------------------------
\* Fixed texts of the program.

ERROR_RETRIEVING_DIFF == <<"E", "r", "r", "o", "r", " ", "r", "e", "t", "r", "i", "e", "v", "i", "n", "g", " ", "g", "i", "t", " ", "d", "i", "f", "f", ".">>
NO_APPLICABLE_CHANGES == <<"N", "o", " ", "a", "p", "p", "l", "i", "c", "a", "b", "l", "e", " ", "c", "h", "a", "n", "g", "e", "s", " ", "t", "o", " ", "c", "o", "m", "m", "i", "t", " ", "(", "l", "o", "c", "k", " ", "f", "i", "l", "e", "s", " ", "m", "i", "g", "h", "t", " ", "h", "a", "v", "e", " ", "b", "e", "e", "n", " ", "e", "x", "c", "l", "u", "d", "e", "d", ")", ".">>
GENERIC_LARGE_DIFF_MESSAGE == <<"r", "e", "f", "a", "c", "t", "o", "r", ":", " ", "A", "p", "p", "l", "y", " ", "e", "x", "t", "e", "n", "s", "i", "v", "e", " ", "c", "h", "a", "n", "g", "e", "s", " ", "(", "d", "i", "f", "f", " ", "t", "o", "o", " ", "l", "a", "r", "g", "e", " ", "f", "o", "r", " ", "d", "e", "t", "a", "i", "l", "e", "d", " ", "A", "I", " ", "s", "u", "m", "m", "a", "r", "y", ")">>
COULD_NOT_GENERATE == <<"C", "o", "u", "l", "d", " ", "n", "o", "t", " ", "g", "e", "n", "e", "r", "a", "t", "e", " ", "c", "o", "m", "m", "i", "t", " ", "m", "e", "s", "s", "a", "g", "e", ".">>
ERROR_GENERATING == <<"E", "r", "r", "o", "r", " ", "g", "e", "n", "e", "r", "a", "t", "i", "n", "g", " ", "c", "o", "m", "m", "i", "t", " ", "m", "e", "s", "s", "a", "g", "e", ".">>

ORIGIN_PREFIX == <<"o", "r", "i", "g", "i", "n", "/">>
MAIN == <<"m", "a", "i", "n">>
MASTER == <<"m", "a", "s", "t", "e", "r">>
common_defaults == <<MAIN, MASTER>>

MAX_DIFF_CHARS == 60000
MAX_DIFF_LENGTH_BRANCH == 60000

----------------------------------------------------------------------------
\* Diff text, abstracted to [len, blank]; git's own output is blank only
\* when it is empty.

DiffText(n) == [len |-> n, blank |-> (n = 0)]
EMPTY_DIFF == DiffText(0)

----------------------------------------------------------------------------
\* VCS adapter (_git.py).  `ok` is whether the git invocation succeeded
\* (run_git_command returned a result rather than None).

get_current_branch(ok, checkedOut) ==
    LET stdout == checkedOut \o <<"\n">>
    IN  IF ok /\ stdout # <<>> THEN Some(Strip(stdout)) ELSE None

RECURSIVE ProbeDefaults(_, _, _)
ProbeDefaults(cands, localRefs, remoteRefs) ==
    IF cands = <<>> THEN None
    ELSE IF Head(cands) \in localRefs THEN Some(Head(cands))
    ELSE IF Head(cands) \in remoteRefs THEN Some(Head(cands))
    ELSE ProbeDefaults(Tail(cands), localRefs, remoteRefs)

get_default_branch(symHead, localRefs, remoteRefs) ==
    IF symHead # None
    THEN Some(Replace(Strip(ORIGIN_PREFIX \o Val(symHead) \o <<"\n">>), ORIGIN_PREFIX, <<>>))
    ELSE ProbeDefaults(common_defaults, localRefs, remoteRefs)

get_git_diff_EmptyOnFailure(staged, ok, tree) ==
    LET stdout == IF staged THEN DiffText(tree.staged) ELSE DiffText(tree.unstaged)
    IN  IF ok /\ stdout.len > 0 THEN Some(stdout) ELSE Some(EMPTY_DIFF)
get_git_diff(staged, ok, tree) ==
    LET stdout == IF staged THEN DiffText(tree.staged) ELSE DiffText(tree.unstaged)
    IN  IF ok /\ stdout.len > 0 THEN Some(stdout)
        ELSE IF ok THEN Some(EMPTY_DIFF)
        ELSE None

----------------------------------------------------------------------------
\* Generation client (_litellm.py).  A backend reply is
\* [raised |-> BOOLEAN, content |-> None | Some(text)].

generate_commit_message_NoLimit(diff_content, reply) ==
    IF diff_content = None THEN ERROR_RETRIEVING_DIFF
    ELSE IF Val(diff_content).blank THEN NO_APPLICABLE_CHANGES
    ELSE IF reply.raised THEN ERROR_GENERATING
    ELSE IF Truthy(reply.content) THEN Strip(Val(reply.content))
    ELSE COULD_NOT_GENERATE
generate_commit_message(diff_content, reply) ==
    IF diff_content = None THEN ERROR_RETRIEVING_DIFF
    ELSE IF Val(diff_content).blank THEN NO_APPLICABLE_CHANGES
    ELSE IF Val(diff_content).len > MAX_DIFF_CHARS THEN GENERIC_LARGE_DIFF_MESSAGE
    ELSE IF reply.raised THEN ERROR_GENERATING
    ELSE IF Truthy(reply.content) THEN Strip(Val(reply.content))
    ELSE COULD_NOT_GENERATE

\* Whether generate_commit_message reaches litellm.completion.
CommitMessageCallsBackend(diff_content) ==
    /\ diff_content # None
    /\ ~Val(diff_content).blank
    /\ ~(Val(diff_content).len > MAX_DIFF_CHARS)

CleanBranchName(content) ==
    Strip(Replace(Replace(Replace(Strip(content), <<BACKTICK>>, <<>>), <<"'">>, <<>>), <<"\"">>, <<>>))

InvalidBranchFormat(name) ==
    \/ Contains(name, <<" ">>)
    \/ Contains(name, <<"\\", "n">>)
    \/ name = <<>>

\* Whether generate_branch_name reaches litellm.completion.
BranchNameCallsBackend_NoLimit(diff_content) == ~diff_content.blank
BranchNameCallsBackend(diff_content) ==
    /\ ~diff_content.blank
    /\ ~(diff_content.len > MAX_DIFF_LENGTH_BRANCH)

generate_branch_name_NoGuards(diff_content, reply) ==
    IF reply.raised \/ reply.content = None THEN None
    ELSE IF InvalidBranchFormat(CleanBranchName(Val(reply.content))) THEN None
    ELSE Some(CleanBranchName(Val(reply.content)))
generate_branch_name(diff_content, reply) ==
    IF ~BranchNameCallsBackend(diff_content) THEN None
    ELSE IF reply.raised \/ reply.content = None THEN None
    ELSE IF InvalidBranchFormat(CleanBranchName(Val(reply.content))) THEN None
    ELSE Some(CleanBranchName(Val(reply.content)))

\* generate_pr_description(diff, commit_message): result is
\* [raised |-> BOOLEAN, text |-> description].  Guards and failure kinds
\* follow the Generation Client section of the specification.
generate_pr_description(diff_content, message, reply) ==
    IF diff_content.blank THEN [raised |-> TRUE, text |-> <<>>]
    ELSE IF diff_content.len > MAX_DIFF_CHARS THEN [raised |-> TRUE, text |-> <<>>]
    ELSE IF reply.raised \/ ~Truthy(reply.content) THEN [raised |-> TRUE, text |-> <<>>]
    ELSE [raised |-> FALSE, text |-> Val(reply.content)]

----------------------------------------------------------------------------
\* Inputs of a run.

FEATURE == <<"f", "e", "a", "t", "/", "a", "d", "d", "-", "l", "o", "g", "i", "n">>
DEV == <<"d", "e", "v">>

BranchReplyTexts ==
    { <<BACKTICK>> \o FEATURE \o <<BACKTICK, "\n">>,
      <<"a", "d", "d", " ", "l", "o", "g", "i", "n">>,
      MAIN }

CommitReplyTexts ==
    { <<" ", "f", "i", "x", ":", " ", "x", "\n", "\n", "b", "o", "d", "y", "\n">> }

PrReplyTexts == { <<"S", "u", "m", "m", "a", "r", "y">> }

Replies(texts) ==
    { [raised |-> TRUE, content |-> None],
      [raised |-> FALSE, content |-> None],
      [raised |-> FALSE, content |-> Some(<<>>)] }
    \cup { [raised |-> FALSE, content |-> Some(t)] : t \in texts }

Answers == { <<>>, <<"y">>, <<" ", "Y">>, <<"n">>, <<"N", " ">> }

InitialTrees ==
    [unstaged : {0, 30000, 60001}, staged : {0, 30000}, locks : {"none", "unstaged"}]

----------------------------------------------------------------------------
VARIABLES
    cmd,                  \* the subcommand invoked: "commit" or "pr"
    pc,                   \* position in commit() / pr()
    exit,                 \* "running", "clean" or "unhandled" (uncaught exception)
    head,                 \* repository: the branch checked out
    heads,                \* repository: local branches
    remotes,              \* repository: branches of origin
    symHead,              \* repository: target of origin/HEAD, or None
    tree,                 \* repository: working tree and index
    current_branch_name,  \* commit(): locals
    default_branch_name,
    diff,
    branch_name,
    diff_content,
    commit_message,
    result,               \* what commit() returned: None or Some(tuple)
    pr_description,       \* pr(): local
    calls,                \* history: steps issued, in order, with their outcome
    requests,             \* history: inputs sent to litellm.completion
    given,                \* history: the diff handed to each generation function
    committed,            \* history: message given to git commit
    pushed,               \* history: branch given to git push
    created_pull,         \* history: arguments of repo.create_pull
    arg,                  \* a single function under test: its inputs
    ret                   \* a single function under test: its result

repo == <<head, heads, remotes, symHead, tree>>
locals == <<current_branch_name, default_branch_name, diff, branch_name,
            diff_content, commit_message, result, pr_description>>
history == <<calls, requests, given, committed, pushed, created_pull>>
under_test == <<arg, ret>>
vars == <<cmd, pc, exit, repo, locals, history, under_test>>

Call(op, ok) == [op |-> op, ok |-> ok]
Invoked(op) == \E i \in DOMAIN calls : calls[i].op = op
Failed(op) == \E i \in DOMAIN calls : calls[i].op = op /\ ~calls[i].ok
Succeeded(op) == \E i \in DOMAIN calls : calls[i].op = op /\ calls[i].ok

Init ==
    /\ cmd \in {"commit", "pr"}
    /\ pc = "start"
    /\ exit = "running"
    /\ head \in {MAIN, DEV}
    /\ heads \in {S \in SUBSET {MAIN, MASTER, DEV} : head \in S}
    /\ remotes \in SUBSET {MAIN, MASTER}
    /\ symHead \in {None} \cup {Some(b) : b \in remotes}
    /\ tree \in InitialTrees
    /\ current_branch_name = None
    /\ default_branch_name = None
    /\ diff = None
    /\ branch_name = None
    /\ diff_content = None
    /\ commit_message = <<>>
    /\ result = None
    /\ pr_description = <<>>
    /\ calls = <<>>
    /\ requests = {}
    /\ given = {}
    /\ committed = None
    /\ pushed = None
    /\ created_pull = None
    /\ arg = None
    /\ ret = None

\* commit() ends here with `return` (None) or with the result tuple.
Return(value) ==
    /\ result' = value
    /\ pc' = "returned"

----------------------------------------------------------------------------
\* commit(), _cli.py

\* lines 32-35
ReadCurrentBranch ==
    /\ pc = "start"
    /\ \E ok \in BOOLEAN :
        /\ current_branch_name' = get_current_branch(ok, head)
        /\ IF ~Truthy(current_branch_name')
           THEN Return(None)
           ELSE pc' = "default_branch" /\ UNCHANGED result
    /\ UNCHANGED <<under_test, cmd, exit, repo, default_branch_name, diff, branch_name,
                   diff_content, commit_message, pr_description, history>>

\* line 37
ReadDefaultBranch ==
    /\ pc = "default_branch"
    /\ default_branch_name' = get_default_branch(symHead, heads, remotes)
    /\ pc' = "unstaged_diff"
    /\ UNCHANGED <<under_test, cmd, exit, repo, current_branch_name, diff, branch_name,
                   diff_content, commit_message, result, pr_description, history>>

\* lines 38-41
ReadUnstagedDiff ==
    /\ pc = "unstaged_diff"
    /\ \E ok \in BOOLEAN :
        /\ diff' = get_git_diff(FALSE, ok, tree)
        /\ calls' = Append(calls, Call("get_git_diff_unstaged", ok))
        /\ IF diff' = None
           THEN Return(None)
           ELSE pc' = "branch_check" /\ UNCHANGED result
    /\ UNCHANGED <<under_test, cmd, exit, repo, current_branch_name, default_branch_name,
                   branch_name, diff_content, commit_message, pr_description,
                   requests, given, committed, pushed, created_pull>>

\* line 43
OnDefaultBranch_UnknownIsDefault ==
    ~Truthy(default_branch_name) \/ current_branch_name = default_branch_name
OnDefaultBranch == Truthy(default_branch_name) /\ current_branch_name = default_branch_name

\* lines 47-49: where commit() goes once generate_branch_name has answered
AfterBranchName_Continue(name) == IF name = None THEN "stage" ELSE "branch_prompt"
AfterBranchName(name) == IF name = None THEN "returned" ELSE "branch_prompt"

\* lines 43-49
SuggestBranchName ==
    /\ pc = "branch_check"
    /\ OnDefaultBranch
    /\ \E reply \in Replies(BranchReplyTexts) :
        /\ branch_name' = generate_branch_name(Val(diff), reply)
        /\ given' = given \cup {[task |-> "branch_name", text |-> Val(diff)]}
        /\ requests' = IF BranchNameCallsBackend(Val(diff))
                       THEN requests \cup {[task |-> "branch_name", len |-> Val(diff).len]}
                       ELSE requests
    /\ calls' = Append(calls, Call("generate_branch_name", branch_name' # None))
    /\ pc' = AfterBranchName(branch_name')
    /\ result' = None
    /\ UNCHANGED <<under_test, cmd, exit, repo, current_branch_name, default_branch_name, diff,
                   diff_content, commit_message, pr_description,
                   committed, pushed, created_pull>>

\* line 43, condition false
SkipBranchSuggestion ==
    /\ pc = "branch_check"
    /\ ~OnDefaultBranch
    /\ pc' = "stage"
    /\ UNCHANGED <<under_test, cmd, exit, repo, locals, history>>

\* _git.py create_and_checkout_branch: git checkout -b <name>
CheckoutCreates(ok, name) == ok /\ name \notin heads

\* line 51: only 'y' accepts the suggested branch name
AcceptsBranch(answer) == Lower(Strip(answer)) = <<"y">>

\* lines 51-56: where commit() goes after the prompt; the value returned by
\* create_and_checkout_branch is not looked at
AfterBranchPrompt_AbortOnDecline(accepted, created) ==
    IF ~accepted THEN "returned" ELSE "stage"
AfterBranchPrompt(accepted, created) == "stage"

\* lines 51-54
AnswerBranchPrompt ==
    /\ pc = "branch_prompt"
    /\ \E answer \in Answers, ok \in BOOLEAN :
        IF AcceptsBranch(answer)
        THEN /\ calls' = calls \o <<Call("branch_prompt", TRUE),
                                    Call("create_and_checkout_branch",
                                         CheckoutCreates(ok, Val(branch_name)))>>
             /\ IF CheckoutCreates(ok, Val(branch_name))
                THEN /\ head' = Val(branch_name)
                     /\ heads' = heads \cup {Val(branch_name)}
                ELSE UNCHANGED <<head, heads>>
             /\ pc' = AfterBranchPrompt(TRUE, CheckoutCreates(ok, Val(branch_name)))
        ELSE /\ calls' = Append(calls, Call("branch_prompt", FALSE))
             /\ UNCHANGED <<head, heads>>
             /\ pc' = AfterBranchPrompt(FALSE, FALSE)
    /\ UNCHANGED <<under_test, cmd, exit, remotes, symHead, tree, locals,
                   requests, given, committed, pushed, created_pull>>

\* _git.py stage_all_changes: git add .
StagedTree(t) ==
    [unstaged |-> 0,
     staged |-> t.staged + t.unstaged,
     locks |-> IF t.locks = "unstaged" THEN "staged" ELSE t.locks]

\* lines 56-58: where commit() goes once stage_all_changes has answered
AfterStage_Continue(ok) == "staged_diff"
AfterStage_Restart(ok) == IF ~ok THEN "branch_check" ELSE "staged_diff"
AfterStage_Retry(ok) == IF ~ok THEN "stage" ELSE "staged_diff"
AfterStage(ok) == IF ~ok THEN "returned" ELSE "staged_diff"

\* lines 56-58
StageAll ==
    /\ pc = "stage"
    /\ \E ok \in BOOLEAN :
        /\ tree' = IF ok THEN StagedTree(tree) ELSE tree
        /\ calls' = Append(calls, Call("stage_all_changes", ok))
        /\ pc' = AfterStage(ok)
    /\ result' = None
    /\ UNCHANGED <<under_test, cmd, exit, head, heads, remotes, symHead,
                   current_branch_name, default_branch_name, diff, branch_name,
                   diff_content, commit_message, pr_description,
                   requests, given, committed, pushed, created_pull>>

\* lines 60-64
ReadStagedDiff ==
    /\ pc = "staged_diff"
    /\ \E ok \in BOOLEAN :
        /\ diff_content' = get_git_diff(TRUE, ok, tree)
        /\ calls' = Append(calls, Call("get_git_diff_staged", ok))
        /\ IF diff_content' = None
           THEN Return(None)
           ELSE pc' = "generate" /\ UNCHANGED result
    /\ UNCHANGED <<under_test, cmd, exit, repo, current_branch_name, default_branch_name, diff,
                   branch_name, commit_message, pr_description,
                   requests, given, committed, pushed, created_pull>>

\* The backend gave no usable commit message (it raised, or its content is
\* missing or empty).
GenerationFailed(diff_text, reply) ==
    CommitMessageCallsBackend(diff_text) /\ (reply.raised \/ ~Truthy(reply.content))

\* line 68: the diff handed to generate_commit_message is the one read at
\* line 60 (staged scope), not the one read at line 38
commit_message_input_PreStage(unstaged_snapshot, staged_snapshot) == unstaged_snapshot
commit_message_input(unstaged_snapshot, staged_snapshot) == staged_snapshot

\* lines 66-73: generate_commit_message catches every backend error itself,
\* so the except clause of commit() is never entered.
GenerateMessage ==
    /\ pc = "generate"
    /\ LET input == commit_message_input(diff, diff_content)
       IN  /\ \E reply \in Replies(CommitReplyTexts) :
                /\ commit_message' = generate_commit_message(input, reply)
                /\ calls' = Append(calls, Call("generate_commit_message",
                                               ~GenerationFailed(input, reply)))
           /\ given' = given \cup {[task |-> "commit_message", text |-> Val(input)]}
           /\ requests' = IF CommitMessageCallsBackend(input)
                          THEN requests \cup {[task |-> "commit_message",
                                               len |-> Val(input).len]}
                          ELSE requests
    /\ pc' = "confirm"
    /\ UNCHANGED <<under_test, cmd, exit, repo, current_branch_name, default_branch_name, diff,
                   branch_name, diff_content, result, pr_description,
                   committed, pushed, created_pull>>

\* _git.py git_commit_with_message: git commit succeeds only with something staged
CommitSucceeds(ok, t) == ok /\ (t.staged > 0 \/ t.locks = "staged")
CommittedTree(t) == [unstaged |-> t.unstaged, staged |-> 0,
                     locks |-> IF t.locks = "staged" THEN "none" ELSE t.locks]

\* line 76: every answer but 'n' confirms the commit
ConfirmsCommit_DefaultNo(answer) == Lower(Strip(answer)) = <<"y">>
ConfirmsCommit(answer) == Lower(Strip(answer)) # <<"n">>

\* lines 75-79
ConfirmCommit ==
    /\ pc = "confirm"
    /\ \E answer \in Answers, ok \in BOOLEAN :
        IF ConfirmsCommit(answer)
        THEN /\ committed' = Some(commit_message)
             /\ calls' = calls \o <<Call("confirm_commit", TRUE),
                                    Call("git_commit_with_message", CommitSucceeds(ok, tree))>>
             /\ tree' = IF CommitSucceeds(ok, tree) THEN CommittedTree(tree) ELSE tree
        ELSE /\ calls' = Append(calls, Call("confirm_commit", FALSE))
             /\ UNCHANGED <<committed, tree>>
    /\ pc' = "push"
    /\ UNCHANGED <<under_test, cmd, exit, head, heads, remotes, symHead, locals,
                   requests, given, pushed, created_pull>>

\* lines 81-85: what commit() returns once push_current_branch has answered
AfterPush_Ignore(ok) ==
    Some([default_branch_name |-> default_branch_name,
          current_branch_name |-> current_branch_name,
          commit_message |-> commit_message,
          diff_content |-> diff_content])
AfterPush(ok) ==
    IF ~ok THEN None
    ELSE Some([default_branch_name |-> default_branch_name,
               current_branch_name |-> current_branch_name,
               commit_message |-> commit_message,
               diff_content |-> diff_content])

\* _git.py line 179: push_current_branch reads the branch again
branch_to_push_AtStart(ok, checkedOut, atStart) ==
    IF ok THEN atStart ELSE None
branch_to_push(ok, checkedOut, atStart) == get_current_branch(ok, checkedOut)

\* lines 81-85 with _git.py push_current_branch
Push ==
    /\ pc = "push"
    /\ \E readOk \in BOOLEAN, pushOk \in BOOLEAN :
        LET current_branch == branch_to_push(readOk, head, current_branch_name)
        IN  IF ~Truthy(current_branch)
            THEN /\ calls' = Append(calls, Call("push_current_branch", FALSE))
                 /\ UNCHANGED <<pushed, remotes>>
                 /\ Return(AfterPush(FALSE))
            ELSE /\ calls' = Append(calls, Call("push_current_branch", pushOk))
                 /\ pushed' = Some(Val(current_branch))
                 /\ remotes' = IF pushOk THEN remotes \cup {Val(current_branch)} ELSE remotes
                 /\ Return(AfterPush(pushOk))
    /\ UNCHANGED <<under_test, cmd, exit, head, heads, symHead, tree,
                   current_branch_name, default_branch_name, diff, branch_name,
                   diff_content, commit_message, pr_description,
                   requests, given, committed, created_pull>>

\* main(): the commit subcommand ends when commit() returns
CommitEnds ==
    /\ cmd = "commit"
    /\ pc = "returned"
    /\ pc' = "done"
    /\ exit' = "clean"
    /\ UNCHANGED <<under_test, cmd, repo, locals, history>>

----------------------------------------------------------------------------
\* pr(), _cli.py

PrSteps == {"generate_pr_description", "confirm_pr", "create_pull_request"}

\* line 92: unpacking the value of ctx.invoke(commit); None cannot be unpacked
UnpackCommitResult ==
    /\ cmd = "pr"
    /\ pc = "returned"
    /\ IF result = None
       THEN pc' = "done" /\ exit' = "unhandled"
       ELSE pc' = "pr_check" /\ UNCHANGED exit
    /\ UNCHANGED <<under_test, cmd, repo, locals, history>>

\* line 94
RefusesPr_Never(current, default) == FALSE
RefusesPr(current, default) == current = default

\* lines 94-96
CheckPrBranch ==
    /\ pc = "pr_check"
    /\ IF RefusesPr(Val(result).current_branch_name, Val(result).default_branch_name)
       THEN pc' = "done" /\ exit' = "clean"
       ELSE pc' = "pr_describe" /\ UNCHANGED exit
    /\ UNCHANGED <<under_test, cmd, repo, locals, history>>

PrDescriptionCallsBackend(diff_text) ==
    ~diff_text.blank /\ ~(diff_text.len > MAX_DIFF_CHARS)

\* lines 100-104: the description, or the commit message when generation raised
DescriptionOrFallback_Empty(generated, message) ==
    IF generated.raised THEN <<>> ELSE generated.text
DescriptionOrFallback(generated, message) ==
    IF generated.raised THEN message ELSE generated.text

\* lines 98-107
DescribePr ==
    /\ pc = "pr_describe"
    /\ \E reply \in Replies(PrReplyTexts) :
        LET r == Val(result)
            generated == generate_pr_description(Val(r.diff_content), r.commit_message, reply)
        IN  /\ pr_description' = DescriptionOrFallback(generated, r.commit_message)
            /\ calls' = Append(calls, Call("generate_pr_description", ~generated.raised))
            /\ given' = given \cup {[task |-> "pr_description", text |-> Val(r.diff_content)]}
            /\ requests' = IF PrDescriptionCallsBackend(Val(r.diff_content))
                           THEN requests \cup {[task |-> "pr_description",
                                                len |-> Val(r.diff_content).len]}
                           ELSE requests
    /\ pc' = "pr_confirm"
    /\ UNCHANGED <<under_test, cmd, exit, repo, current_branch_name, default_branch_name, diff,
                   branch_name, diff_content, commit_message, result,
                   committed, pushed, created_pull>>

\* line 109: only 'n' declines the PR description
DeclinesPr(answer) == Lower(Strip(answer)) = <<"n">>

\* lines 109-111
ConfirmPr ==
    /\ pc = "pr_confirm"
    /\ \E answer \in Answers :
        IF DeclinesPr(answer)
        THEN /\ calls' = Append(calls, Call("confirm_pr", FALSE))
             /\ pc' = "done"
             /\ exit' = "clean"
        ELSE /\ calls' = Append(calls, Call("confirm_pr", TRUE))
             /\ pc' = "pr_create"
             /\ UNCHANGED exit
    /\ UNCHANGED <<under_test, cmd, repo, locals, requests, given, committed, pushed, created_pull>>

\* line 114: commit_message.split('\n')[0]
RECURSIVE FirstLine(_)
FirstLine(s) == IF s = <<>> \/ Head(s) = "\n" THEN <<>>
                ELSE <<Head(s)>> \o FirstLine(Tail(s))

\* line 114
pr_title_Whole(message) == message
pr_title(message) == FirstLine(message)

\* _git.py get_git_auth_token: GITHUB_TOKEN if set and not empty, else the
\* password of `git credential fill` (None when the command fails or prints
\* no password line).
get_git_auth_token(env_token, credential) ==
    IF Truthy(env_token) THEN env_token ELSE credential

TOKEN == <<"t", "o", "k">>
OWNER == <<"o", "w", "n", "e", "r">>
REPO == <<"r", "e", "p", "o">>
NO_REPO_INFO == [owner |-> None, repo |-> None]

\* _git.py get_remote_repo_info, lines 159-160: the fixed heads of the two
\* URL patterns
HTTPS_PREFIX == <<"h", "t", "t", "p", "s", ":", "/", "/", "g", "i", "t", "h", "u", "b", ".", "c", "o", "m", "/">>
SSH_PREFIX == <<"g", "i", "t", "@", "g", "i", "t", "h", "u", "b", ".", "c", "o", "m", ":">>
DOT_GIT == <<".", "g", "i", "t">>

\* the longest prefix of s without a character of stops: [^...]+ is greedy
RECURSIVE RunOf(_, _)
RunOf(s, stops) ==
    IF s = <<>> \/ Head(s) \in stops THEN <<>>
    ELSE <<Head(s)>> \o RunOf(Tail(s), stops)

\* re.match(prefix ([^/]+)/([^/.]+)(?:\.git)?, url): anchored at the start
\* only; None when there is no match, else groups 1 and 2
MatchRepoPattern(prefix, url) ==
    IF ~StartsWith(url, prefix) THEN None
    ELSE LET rest == SubSeq(url, Len(prefix) + 1, Len(url))
             owner == RunOf(rest, {"/"})
             after == SubSeq(rest, Len(owner) + 2, Len(rest))
             repo_name == RunOf(after, {"/", "."})
         IN  IF owner = <<>> \/ Len(owner) = Len(rest) \/ repo_name = <<>>
             THEN None
             ELSE Some([owner |-> Some(owner), repo |-> Some(repo_name)])

\* _git.py get_remote_repo_info: ok is whether `git remote get-url origin`
\* succeeded, stdout what it printed
get_remote_repo_info(ok, stdout) ==
    IF ~ok \/ stdout = <<>> THEN NO_REPO_INFO
    ELSE LET remote_url == Strip(stdout)
             https_match == MatchRepoPattern(HTTPS_PREFIX, remote_url)
             ssh_match == MatchRepoPattern(SSH_PREFIX, remote_url)
         IN  IF https_match # None THEN Val(https_match)
             ELSE IF ssh_match # None THEN Val(ssh_match)
             ELSE NO_REPO_INFO

\* what `git remote get-url origin` prints in the runs of pr
RemoteUrls ==
    { HTTPS_PREFIX \o OWNER \o <<"/">> \o REPO \o DOT_GIT \o <<"\n">>,
      <<"/", "s", "r", "v", "/", "r", ".", "g", "i", "t", "\n">> }

\* _git.py create_pull_request, lines 232-245: the exception raised, or
\* "create_pull" when the three prerequisites are resolved and the hosting
\* call is issued.
create_pull_request_HeadFirst(github_token, head_branch, info) ==
    IF ~Truthy(head_branch) THEN "NoGitRepoDetected"
    ELSE IF ~Truthy(github_token) THEN "NoGithubTokenError"
    ELSE IF ~Truthy(info.owner) \/ ~Truthy(info.repo) THEN "NoGithubRepoInfo"
    ELSE "create_pull"
create_pull_request(github_token, head_branch, info) ==
    IF ~Truthy(github_token) THEN "NoGithubTokenError"
    ELSE IF ~Truthy(head_branch) THEN "NoGitRepoDetected"
    ELSE IF ~Truthy(info.owner) \/ ~Truthy(info.repo) THEN "NoGithubRepoInfo"
    ELSE "create_pull"

\* lines 113-122 with _git.py create_pull_request (lines 220-257).  The
\* token, the head branch and the owner/repo are resolved in that order and
\* each may be absent; NoGithubTokenError, NoGitRepoDetected,
\* NoGithubRepoInfo and the API's GithubException are caught nowhere.
CreatePullRequest ==
    /\ pc = "pr_create"
    /\ \E env_token \in {None, Some(TOKEN)}, readOk \in BOOLEAN,
          urlOk \in BOOLEAN, stdout \in RemoteUrls, apiOk \in BOOLEAN :
        LET head_branch == get_current_branch(readOk, head)
            info == get_remote_repo_info(urlOk, stdout)
            prerequisites ==
                create_pull_request(get_git_auth_token(env_token, None),
                                    head_branch, info) = "create_pull"
        IN  /\ created_pull' =
                 IF prerequisites
                 THEN Some([title |-> pr_title(Val(result).commit_message),
                            body |-> pr_description,
                            head |-> Val(head_branch),
                            base |-> Val(result).default_branch_name])
                 ELSE created_pull
            /\ calls' = Append(calls, Call("create_pull_request", prerequisites /\ apiOk))
            /\ exit' = IF prerequisites /\ apiOk THEN "clean" ELSE "unhandled"
    /\ pc' = "done"
    /\ UNCHANGED <<under_test, cmd, repo, locals, requests, given, committed, pushed>>

----------------------------------------------------------------------------
Next ==
    \/ ReadCurrentBranch
    \/ ReadDefaultBranch
    \/ ReadUnstagedDiff
    \/ SuggestBranchName
    \/ SkipBranchSuggestion
    \/ AnswerBranchPrompt
    \/ StageAll
    \/ ReadStagedDiff
    \/ GenerateMessage
    \/ ConfirmCommit
    \/ Push
    \/ CommitEnds
    \/ UnpackCommitResult
    \/ CheckPrBranch
    \/ DescribePr
    \/ ConfirmPr
    \/ CreatePullRequest

Spec == Init /\ [][Next]_vars

----------------------------------------------------------------------------
\* Single functions, applied once to an input drawn from a bounded set.

\* str.split(sep, 1)
SplitOnce(s, sep) ==
    LET hits == {i \in 1..(Len(s) - Len(sep) + 1) : SubSeq(s, i, i + Len(sep) - 1) = sep}
    IN  IF hits = {} THEN <<s>>
        ELSE LET i == CHOOSE h \in hits : \A k \in hits : h <= k
             IN  <<SubSeq(s, 1, i - 1), SubSeq(s, i + Len(sep), Len(s))>>

\* _git.py git_commit_with_message, lines 86-90: the values given with -m.
\* The separator written in the source is '\\n': a backslash followed by n.
commit_args(message) ==
    LET lines == SplitOnce(Strip(message), <<"\\", "n">>)
    IN  IF Len(lines) > 1 /\ Strip(lines[2]) # <<>>
        THEN <<lines[1], Strip(lines[2])>>
        ELSE <<lines[1]>>

DiffInputs ==
    {d \in [len : {0, 1, 59999, 60000, 60001, 70000}, blank : BOOLEAN] :
        d.len = 0 => d.blank}

BranchReplyInputs ==
    BranchReplyTexts \cup
    { <<"\"", "f", "i", "x", "/", "a", "\"">>,
      <<"'", "f", "i", "x", "'", " ">>,
      <<"f", "i", "x", "\n", "b", "u", "g">>,
      <<"f", "i", "x", "\\", "n", "b", "u", "g">>,
      <<BACKTICK, BACKTICK>>,
      <<" ", "\n">> }

MessageInputs ==
    { <<"s", "u", "b">>,
      <<"s", "u", "b", "\n", "b", "o", "d", "y">>,
      <<"s", "u", "b", "\n", "\n", "b", "1", "\n", "\n", "b", "2", "\n">>,
      <<"s", "u", "b", "\n", " ", "\n">>,
      <<"s", "u", "b", "\\", "n", "b", "o", "d", "y">>,
      <<" ", "s", "u", "b", "\n">> }

AnswerInputs ==
    Answers \cup { <<"Y">>, <<"N">>, <<" ", "n", "\n">>, <<"n", "o">>, <<"y", "e", "s">>,
                   <<" ">>, <<"x">> }

SymHeadInputs ==
    { None, Some(MAIN), Some(MASTER), Some(DEV), Some(FEATURE),
      Some(<<"u", "p", "/">> \o ORIGIN_PREFIX \o <<"x">>) }

TokenInputs == { None, Some(<<>>), Some(TOKEN) }

RepoInfoInputs == [owner : {None, Some(OWNER)}, repo : {None, Some(<<>>), Some(REPO)}]

RepoNameInputs == { REPO, <<"m", "y", ".", "r", "e", "p", "o">>, <<"a", "-", "b", "_", "1">> }

\* the line printed by `git remote get-url origin` for a remote of the form
OriginUrl(form, owner, repo_name, suffix) ==
    CASE form = "https" -> HTTPS_PREFIX \o owner \o <<"/">> \o repo_name \o suffix \o <<"\n">>
      [] form = "ssh" -> SSH_PREFIX \o owner \o <<"/">> \o repo_name \o suffix \o <<"\n">>
      [] form = "other" -> <<"h", "t", "t", "p", "s", ":", "/", "/", "g", "i", "t", "l", "a", "b", ".", "c", "o", "m", "/">>
                           \o owner \o <<"/">> \o repo_name \o suffix \o <<"\n">>
      [] form = "no_repo" -> HTTPS_PREFIX \o owner \o <<"\n">>
      [] form = "empty" -> <<>>

FunctionInit ==
    /\ cmd = "commit"
    /\ pc = "call"
    /\ exit = "running"
    /\ head = MAIN
    /\ heads = {MAIN}
    /\ remotes = {}
    /\ symHead = None
    /\ tree = [unstaged |-> 0, staged |-> 0, locks |-> "none"]
    /\ current_branch_name = None
    /\ default_branch_name = None
    /\ diff = None
    /\ branch_name = None
    /\ diff_content = None
    /\ commit_message = <<>>
    /\ result = None
    /\ pr_description = <<>>
    /\ calls = <<>>
    /\ requests = {}
    /\ given = {}
    /\ committed = None
    /\ pushed = None
    /\ created_pull = None
    /\ ret = None
    /\ \/ arg \in [fn : {"generate_commit_message"},
                   diff_content : {None} \cup {Some(d) : d \in DiffInputs},
                   reply : Replies(CommitReplyTexts)]
       \/ arg \in [fn : {"generate_branch_name"},
                   diff_content : {DiffText(0), DiffText(60000), DiffText(60001)},
                   reply : Replies(BranchReplyInputs)]
       \/ arg \in [fn : {"git_commit_with_message"}, message : MessageInputs]
       \/ arg \in [fn : {"get_git_diff"}, staged : BOOLEAN, ok : BOOLEAN,
                   tree : InitialTrees]
       \/ arg \in [fn : {"get_default_branch"}, symHead : SymHeadInputs,
                   localRefs : SUBSET {MAIN, MASTER, DEV},
                   remoteRefs : SUBSET {MAIN, MASTER}]
       \/ arg \in [fn : {"create_pull_request"}, env_token : TokenInputs,
                   credential : TokenInputs, readOk : BOOLEAN, info : RepoInfoInputs]
       \/ arg \in [fn : {"console.input"}, answer : AnswerInputs]
       \/ arg \in [fn : {"get_remote_repo_info"}, ok : BOOLEAN,
                   form : {"https", "ssh", "other", "no_repo", "empty"},
                   owner : {OWNER}, repo : RepoNameInputs, suffix : {<<>>, DOT_GIT}]

Returns(value) ==
    /\ pc = "call"
    /\ pc' = "result"
    /\ ret' = value
    /\ UNCHANGED <<arg, cmd, exit, repo, locals, history>>

Apply_generate_commit_message ==
    /\ arg.fn = "generate_commit_message"
    /\ Returns([text |-> generate_commit_message(arg.diff_content, arg.reply),
                backend |-> CommitMessageCallsBackend(arg.diff_content)])

Apply_generate_branch_name ==
    /\ arg.fn = "generate_branch_name"
    /\ Returns(generate_branch_name(arg.diff_content, arg.reply))

Apply_git_commit_with_message ==
    /\ arg.fn = "git_commit_with_message"
    /\ Returns(commit_args(arg.message))

Apply_get_git_diff ==
    /\ arg.fn = "get_git_diff"
    /\ Returns(get_git_diff(arg.staged, arg.ok, arg.tree))

Apply_get_default_branch ==
    /\ arg.fn = "get_default_branch"
    /\ Returns(get_default_branch(arg.symHead, arg.localRefs, arg.remoteRefs))

Apply_create_pull_request ==
    /\ arg.fn = "create_pull_request"
    /\ Returns(create_pull_request(get_git_auth_token(arg.env_token, arg.credential),
                                   get_current_branch(arg.readOk, head), arg.info))

Apply_confirmations ==
    /\ arg.fn = "console.input"
    /\ Returns([branch |-> AcceptsBranch(arg.answer),
                commit |-> ConfirmsCommit(arg.answer),
                pr |-> ~DeclinesPr(arg.answer)])

Apply_get_remote_repo_info ==
    /\ arg.fn = "get_remote_repo_info"
    /\ Returns(get_remote_repo_info(arg.ok,
                    OriginUrl(arg.form, arg.owner, arg.repo, arg.suffix)))

FunctionNext ==
    \/ Apply_get_remote_repo_info
    \/ Apply_generate_commit_message
    \/ Apply_generate_branch_name
    \/ Apply_git_commit_with_message
    \/ Apply_get_git_diff
    \/ Apply_get_default_branch
    \/ Apply_create_pull_request
    \/ Apply_confirmations

FunctionSpec == FunctionInit /\ [][FunctionNext]_vars

Returned(fn) == pc = "result" /\ arg.fn = fn

----------------------------------------------------------------------------
\* Properties of the workflow.

AbsentOrBlank(d) == d = None \/ Val(d).blank

\* C1: git commit is invoked, and its confirmation asked, only if the staged
\* diff collected after staging is present and not blank; a run whose staged
\* diff is empty never confirms and never commits.
C1_CommitOnlyWithStagedDiff ==
    \A i \in DOMAIN calls :
        calls[i].op \in {"confirm_commit", "git_commit_with_message"}
            => ~AbsentOrBlank(diff_content)

\* C2: when commit-message generation fails (the backend raises or answers
\* without content) no confirmation is asked, neither commit nor push is
\* invoked, and the failure text is never committed.
C2_GenerationFailureAborts ==
    Failed("generate_commit_message") =>
        /\ ~Invoked("confirm_commit")
        /\ ~Invoked("git_commit_with_message")
        /\ ~Invoked("push_current_branch")
        /\ committed \notin {Some(ERROR_GENERATING), Some(COULD_NOT_GENERATE)}

\* C3: once the user has declined the commit confirmation, the run invokes
\* no commit, no push and no pull-request creation.
C3_DeclineEndsWithoutMutation ==
    Failed("confirm_commit") =>
        /\ ~Invoked("git_commit_with_message")
        /\ ~Invoked("push_current_branch")
        /\ ~Invoked("create_pull_request")
        /\ created_pull = None

\* C4: every PR step (description generation, PR confirmation, create-PR)
\* comes after a successful push of the same run, and a run whose push
\* failed performs no PR step.
C4_PrOnlyAfterPush ==
    /\ \A i \in DOMAIN calls :
        calls[i].op \in PrSteps =>
            \E j \in 1..(i - 1) : calls[j] = Call("push_current_branch", TRUE)
    /\ created_pull # None => Succeeded("push_current_branch")
    /\ Failed("push_current_branch") =>
        /\ pc \notin {"pr_check", "pr_describe", "pr_confirm", "pr_create"}
        /\ \A i \in DOMAIN calls : calls[i].op \notin PrSteps
        /\ created_pull = None

C4_Witness ==
    /\ cmd = "pr"
    /\ Succeeded("push_current_branch")
    /\ Invoked("create_pull_request")
    /\ created_pull # None

\* C5: pr goes past its branch check only when the branch checked out
\* differs from the default branch, and the head sent to create-PR differs
\* from the base sent.
C5_HeadDiffersFromBase ==
    /\ (pc \in {"pr_describe", "pr_confirm", "pr_create"}
        \/ \E i \in DOMAIN calls : calls[i].op \in PrSteps)
            => Some(head) # default_branch_name
    /\ created_pull # None =>
            Some(Val(created_pull).head) # Val(created_pull).base

C5_Witness ==
    /\ created_pull # None
    /\ Val(created_pull).base # None
    /\ Val(created_pull).head = head

\* C6: when git commit fails, push is not invoked afterwards and no pull
\* request is created in that run.
C6_CommitFailureAborts ==
    Failed("git_commit_with_message") =>
        /\ ~Invoked("push_current_branch")
        /\ ~Invoked("create_pull_request")
        /\ created_pull = None

\* C7: when branch-name generation fails on the default branch, the run
\* aborts: no branch is created and stage, staged-diff collection,
\* commit-message generation, commit and push are never invoked.
C7_BranchNameFailureAborts ==
    Failed("generate_branch_name") =>
        /\ pc \in {"returned", "done"}
        /\ head = Val(current_branch_name)
        /\ \A i \in DOMAIN calls :
            calls[i].op \notin {"create_and_checkout_branch", "stage_all_changes",
                                "get_git_diff_staged", "generate_commit_message",
                                "confirm_commit", "git_commit_with_message",
                                "push_current_branch"}

C7_Witness ==
    /\ Failed("generate_branch_name")
    /\ pc = "done"

\* C8: after the suggested branch was accepted and created, the current
\* branch that commit returns is the new branch, and a pr run that created
\* the branch is not refused as being on the default branch.
C8_ReturnsNewBranch ==
    (Succeeded("create_and_checkout_branch") /\ result # None) =>
        /\ Val(result).current_branch_name = branch_name
        /\ (cmd = "pr" /\ pc = "done") => Invoked("generate_pr_description")

\* C9: when staging fails, the run aborts at once: the staged diff is not
\* collected and no commit-message generation, commit or push is invoked.
C9_StageFailureAborts ==
    Failed("stage_all_changes") =>
        /\ pc \in {"returned", "done"}
        /\ \A i \in DOMAIN calls :
            calls[i].op \notin {"get_git_diff_staged", "generate_commit_message",
                                "confirm_commit", "git_commit_with_message",
                                "push_current_branch"}

C9_Witness ==
    /\ Failed("stage_all_changes")
    /\ pc = "done"

\* C10: when the commit flow inside pr ends early (it returned no result),
\* pr performs no PR step and terminates cleanly, not by an unhandled
\* failure.
C10_PrEndsCleanlyOnAbort ==
    (cmd = "pr" /\ pc = "done" /\ result = None) =>
        /\ exit = "clean"
        /\ \A i \in DOMAIN calls : calls[i].op \notin PrSteps

\* C11: no request reaches the generation backend with an input diff longer
\* than 60000 characters, whatever the task.
C11_NoOversizedRequest ==
    \A r \in requests : r.len <= 60000

C11_Witness ==
    /\ Invoked("generate_commit_message")
    /\ Val(diff_content).len > 60000
    /\ Invoked("generate_pr_description")
    /\ requests = {}

\* C12 as stated: for every diff of 60000 characters or more,
\* generate_commit_message does not call the backend and returns the fixed
\* generic text.
C12_AtOrOverBudget ==
    (Returned("generate_commit_message")
     /\ arg.diff_content # None /\ Val(arg.diff_content).len >= 60000) =>
        /\ ~ret.backend
        /\ ret.text = GENERIC_LARGE_DIFF_MESSAGE

\* C12 amended: for every non-blank diff of more than 60000 characters,
\* generate_commit_message does not call the backend and returns the fixed
\* generic text; a non-blank diff of at most 60000 characters is sent to the
\* backend, and a blank diff is never sent and gets the no-changes text.
C12_OverBudget ==
    (Returned("generate_commit_message") /\ arg.diff_content # None) =>
        LET d == Val(arg.diff_content)
        IN  /\ (~d.blank /\ d.len > 60000) =>
                (~ret.backend /\ ret.text = GENERIC_LARGE_DIFF_MESSAGE)
            /\ (~d.blank /\ d.len <= 60000) =>
                (ret.backend /\ ret.text # GENERIC_LARGE_DIFF_MESSAGE)
            /\ d.blank => (~ret.backend /\ ret.text = NO_APPLICABLE_CHANGES)

C12_Witness ==
    /\ Returned("generate_commit_message")
    /\ arg.diff_content = Some([len |-> 60001, blank |-> FALSE])
    /\ ret.text = GENERIC_LARGE_DIFF_MESSAGE

\* An answer that is the letter n in either case, surrounded by whitespace only.
IsN(answer) ==
    \E i \in DOMAIN answer :
        /\ answer[i] \in {"n", "N"}
        /\ \A j \in DOMAIN answer : j # i => answer[j] \in Whitespace

\* C13: at the commit confirmation and at the PR confirmation every answer
\* accepts, the empty one included, except n (in either case, with
\* surrounding whitespace), which declines.
C13_DefaultYes ==
    Returned("console.input") =>
        /\ ret.commit = ~IsN(arg.answer)
        /\ ret.pr = ~IsN(arg.answer)

C13_Witness ==
    /\ Returned("console.input")
    /\ arg.answer = <<>>
    /\ ret.commit
    /\ ret.pr

RunSteps ==
    {"generate_branch_name", "create_and_checkout_branch", "stage_all_changes",
     "generate_commit_message", "git_commit_with_message", "push_current_branch",
     "generate_pr_description", "create_pull_request"}

\* C14: in one run every mutating or generating step is invoked at most
\* once, whatever its outcome.
C14_NoRetry ==
    \A i, j \in DOMAIN calls :
        (calls[i].op \in RunSteps /\ calls[i].op = calls[j].op) => i = j

C14_Witness ==
    /\ pc = "done"
    /\ Failed("git_commit_with_message")
    /\ Failed("create_pull_request")

\* C15: when PR-description generation raises, pr does not abort: the
\* description is the commit message, the confirmation is asked, and on
\* acceptance create-PR is called with that body.
C15_DescriptionFallback ==
    Failed("generate_pr_description") =>
        /\ pr_description = Val(result).commit_message
        /\ pc \in {"pr_confirm", "pr_create", "done"}
        /\ pc # "pr_confirm" => Invoked("confirm_pr")
        /\ (pc = "done" /\ Succeeded("confirm_pr")) => Invoked("create_pull_request")
        /\ created_pull # None => Val(created_pull).body = Val(result).commit_message

C15_Witness ==
    /\ Failed("generate_pr_description")
    /\ created_pull # None
    /\ Val(created_pull).body = commit_message

\* C16: a name returned by generate_branch_name has no space and no newline
\* in it, is not empty, and has no backtick or quote at either end.
C16_BranchNameWellFormed ==
    (Returned("generate_branch_name") /\ ret # None) =>
        LET name == Val(ret)
        IN  /\ name # <<>>
            /\ \A i \in DOMAIN name : name[i] \notin {" ", "\n"}
            /\ name[1] \notin {BACKTICK, "'", "\""}
            /\ name[Len(name)] \notin {BACKTICK, "'", "\""}

\* The -m values the claim describes: split at the first newline only.
SubjectAndBody(message) ==
    LET lines == SplitOnce(Strip(message), <<"\n">>)
    IN  IF Len(lines) > 1 /\ Strip(lines[2]) # <<>>
        THEN <<lines[1], Strip(lines[2])>>
        ELSE <<lines[1]>>

\* C17: git commit gets the text up to the first newline as its first -m and
\* the trimmed remainder as its second -m, or the subject alone when there
\* is no newline or the remainder is blank.
C17_SplitsAtFirstNewline ==
    Returned("git_commit_with_message") => ret = SubjectAndBody(arg.message)

\* C18: get_git_diff returns the empty text exactly when git succeeded with
\* no output, the output when git succeeded with some, and None exactly when
\* git failed.
C18_EmptyIsNotFailure ==
    Returned("get_git_diff") =>
        LET out == IF arg.staged THEN arg.tree.staged ELSE arg.tree.unstaged
        IN  /\ (ret = Some([len |-> 0, blank |-> TRUE])) = (arg.ok /\ out = 0)
            /\ (ret = None) = ~arg.ok
            /\ (arg.ok /\ out > 0) => ret = Some([len |-> out, blank |-> FALSE])

C18_Witness ==
    /\ Returned("get_git_diff")
    /\ ~arg.ok
    /\ ret = None

C20_DefaultBranch ==
    Returned("get_default_branch") =>
        IF arg.symHead # None
        THEN ret = arg.symHead
        ELSE LET exists(b) == b \in arg.localRefs \/ b \in arg.remoteRefs
             IN  ret = IF exists(MAIN) THEN Some(MAIN)
                       ELSE IF exists(MASTER) THEN Some(MASTER)
                       ELSE None

\* The place of each external step in the order of commit() and pr().
StepRank(op) ==
    CASE op = "get_git_diff_unstaged" -> 0
      [] op = "generate_branch_name" -> 1
      [] op = "branch_prompt" -> 2
      [] op = "create_and_checkout_branch" -> 3
      [] op = "stage_all_changes" -> 4
      [] op = "get_git_diff_staged" -> 5
      [] op = "generate_commit_message" -> 6
      [] op = "confirm_commit" -> 7
      [] op = "git_commit_with_message" -> 8
      [] op = "push_current_branch" -> 9
      [] op = "generate_pr_description" -> 10
      [] op = "confirm_pr" -> 11
      [] op = "create_pull_request" -> 12

\* C21: the external steps of a run are issued one after the other in the
\* order branch-name generation, branch creation, stage, staged diff,
\* commit-message generation, confirmation, commit, push, PR-description
\* generation, create-PR; no step is issued after a later step of this order.
C21_StepsInOrder ==
    \A i, j \in DOMAIN calls :
        i < j => StepRank(calls[i].op) < StepRank(calls[j].op)

C21_Witness ==
    /\ Succeeded("create_pull_request")
    /\ Succeeded("git_commit_with_message")
    /\ Succeeded("push_current_branch")
    /\ Len(calls) >= 9

\* C22: branch-name generation is given the working-tree diff read before
\* stage_all_changes; commit-message and PR-description generation are given
\* the staged diff read after stage_all_changes succeeded in the same run.
C22_SnapshotsNotReused ==
    /\ \A g \in given :
        g.task = "branch_name" =>
            /\ diff # None /\ g.text = Val(diff)
            /\ \A i, j \in DOMAIN calls :
                (calls[i].op = "generate_branch_name" /\ calls[j].op = "stage_all_changes")
                    => i < j
    /\ (diff # None /\ ~Invoked("stage_all_changes")) => Val(diff) = DiffText(tree.unstaged)
    /\ \A g \in given :
        g.task \in {"commit_message", "pr_description"} =>
            /\ Succeeded("stage_all_changes")
            /\ Succeeded("get_git_diff_staged")
            /\ diff_content # None /\ g.text = Val(diff_content)
    /\ diff_content # None =>
        /\ Succeeded("stage_all_changes")
        /\ ~Invoked("git_commit_with_message") => Val(diff_content) = DiffText(tree.staged)

C22_Witness ==
    /\ [task |-> "branch_name", text |-> DiffText(30000)] \in given
    /\ [task |-> "commit_message", text |-> DiffText(60000)] \in given

\* C23: on the default branch, when the suggested branch name is not
\* accepted, no branch is created and the run goes on to stage, the staged
\* diff, generation, confirmation and commit on the default branch.
C23_DeclinedBranchContinues ==
    Failed("branch_prompt") =>
        /\ ~Invoked("create_and_checkout_branch")
        /\ head = Val(current_branch_name)
        /\ head = Val(default_branch_name)
        /\ pc # "stage" => Invoked("stage_all_changes")
        /\ (Succeeded("stage_all_changes") /\ pc # "staged_diff")
                => Invoked("get_git_diff_staged")
        /\ (Succeeded("get_git_diff_staged") /\ pc # "generate")
                => Invoked("generate_commit_message")
        /\ (Invoked("generate_commit_message") /\ pc # "confirm")
                => Invoked("confirm_commit")
        /\ Succeeded("confirm_commit") => Invoked("git_commit_with_message")

C23_Witness ==
    /\ Failed("branch_prompt")
    /\ Succeeded("git_commit_with_message")
    /\ head = Val(default_branch_name)

\* C24: when the current branch is resolved and get_default_branch returns
\* None, commit() invokes neither branch-name generation nor branch creation
\* and goes on to stage.
C24_UnknownDefaultContinues ==
    (/\ Succeeded("get_git_diff_unstaged")
     /\ Truthy(current_branch_name)
     /\ default_branch_name = None) =>
        /\ ~Invoked("generate_branch_name")
        /\ ~Invoked("branch_prompt")
        /\ ~Invoked("create_and_checkout_branch")
        /\ pc \notin {"branch_check", "stage"} => Invoked("stage_all_changes")

C24_Witness ==
    /\ default_branch_name = None
    /\ Truthy(current_branch_name)
    /\ Succeeded("stage_all_changes")
    /\ Succeeded("git_commit_with_message")

\* title is the text of message before its first newline
IsFirstLineOf(title, message) ==
    \E k \in 0..Len(message) :
        /\ title = SubSeq(message, 1, k)
        /\ \A i \in 1..k : message[i] # "\n"
        /\ k = Len(message) \/ message[k + 1] = "\n"

\* C25: create-PR is issued only when the PR description was not declined;
\* its title is the first line of the run's commit message, its body the
\* description shown for confirmation, its base the default branch read at
\* the start of the run; a declined confirmation ends the run without it.
C25_PrDraftFromRun ==
    /\ Invoked("create_pull_request") => Succeeded("confirm_pr")
    /\ created_pull # None =>
        /\ Succeeded("confirm_pr")
        /\ IsFirstLineOf(Val(created_pull).title, commit_message)
        /\ Val(created_pull).body = pr_description
        /\ Val(created_pull).base = default_branch_name
    /\ Failed("confirm_pr") =>
        /\ ~Invoked("create_pull_request")
        /\ created_pull = None
        /\ pc = "done" /\ exit = "clean"

C25_Witness ==
    /\ created_pull # None
    /\ Len(Val(created_pull).title) < Len(commit_message)
    /\ Val(created_pull).body # commit_message

\* C26: when the suggested branch name is accepted and
\* create_and_checkout_branch fails, commit() aborts: it does not stage,
\* commit or push.
C26_FailedCheckoutAborts ==
    Failed("create_and_checkout_branch") =>
        /\ ~Invoked("stage_all_changes")
        /\ ~Invoked("git_commit_with_message")
        /\ ~Invoked("push_current_branch")
        /\ committed = None

\* C27: pr never issues create-PR with an absent base branch; with an
\* unresolved default branch it does not reach create_pull_request.
C27_PrBaseResolved ==
    /\ created_pull # None => Val(created_pull).base # None
    /\ Invoked("create_pull_request") => default_branch_name # None

\* C29: on the resolved default branch, stage is reached only after a branch
\* name was generated from a non-blank working-tree diff of at most 60000
\* characters; with a blank or oversized working-tree diff the run ends
\* before staging and never commits.
C29_StageNeedsBranchName ==
    /\ (OnDefaultBranch /\ Invoked("stage_all_changes")) =>
        /\ Succeeded("generate_branch_name")
        /\ branch_name # None
        /\ ~Val(diff).blank
        /\ Val(diff).len <= 60000
    /\ (/\ OnDefaultBranch
        /\ Succeeded("get_git_diff_unstaged")
        /\ Val(diff).blank \/ Val(diff).len > 60000
        /\ pc # "branch_check") =>
            /\ Failed("generate_branch_name")
            /\ ~Invoked("stage_all_changes")
            /\ committed = None
            /\ pc \in {"returned", "done"}

C29_Witness ==
    /\ OnDefaultBranch
    /\ Succeeded("get_git_diff_unstaged")
    /\ Val(diff).blank
    /\ tree.staged > 0
    /\ pc = "done"
    /\ ~Invoked("stage_all_changes")

\* C30: push_current_branch pushes the branch checked out at push time, and
\* the head branch of the create-PR call of a pr run is the branch pushed
\* earlier in that run.
C30_PushedIsCheckedOut ==
    /\ pushed # None => Val(pushed) = head
    /\ created_pull # None =>
        /\ pushed # None
        /\ Val(created_pull).head = Val(pushed)

C30_Witness ==
    /\ pushed # None
    /\ Succeeded("create_and_checkout_branch")
    /\ Val(pushed) = Val(branch_name)
    /\ Val(pushed) # Val(current_branch_name)

\* C28: get_remote_repo_info returns the owner and the complete repository
\* name of the origin URL for the https and the ssh form, with or without a
\* trailing .git, and (None, None) when the URL cannot be read or has neither
\* form.
C28_OwnerAndRepoOfOrigin ==
    Returned("get_remote_repo_info") =>
        IF arg.ok /\ arg.form \in {"https", "ssh"}
        THEN ret = [owner |-> Some(arg.owner), repo |-> Some(arg.repo)]
        ELSE ret = NO_REPO_INFO

====
